---- MODULE Spec2Model ----
(***************************************************************************)
(* A model of the two lambdas of aws-free-tier-cpu-monitoring:             *)
(*   - terraform/athena_query_lambda/lambda_function.py (query pipeline)   *)
(*   - terraform/lambda/analyze_metrics.py              (ingestion)        *)
(*                                                                         *)
(* Conventions.  A Python value that may be missing (a dict key that may   *)
(* be absent, None) is a sequence of length 0 or 1: <<>> is "absent",      *)
(* <<v>> is "present with value v".  A URL or an object key is the         *)
(* sequence of its "/"-separated segments.  Each handler is cut into steps *)
(* at its calls to external services; a step is one action.                *)
(***************************************************************************)
EXTENDS Integers, Sequences, FiniteSets, TLC

\* ------------------------------------------------------------------ bounds
MaxInvocations == 2     \* concurrent query invocations
MaxDeadline == 2        \* ATHENA_TIMEOUT is drawn from 0..MaxDeadline
MaxLatency == 1         \* seconds a status call or an oversleep may take
MaxRows == 3            \* rows of a raw result set, the header row included
MaxCols == 2            \* cells of a raw result row

Inv == 1..MaxInvocations
ElapsedCap == MaxDeadline + 2   \* the clock saturates above every deadline

Min(a, b) == IF a < b THEN a ELSE b
Max(a, b) == IF a < b THEN b ELSE a
None == <<>>
Some(v) == <<v>>

\* A bounded stand-in for Seq(S): the sequences over S of length 0..n.
SeqUpTo(S, n) == UNION {[1..k -> S] : k \in 0..n}

\* ===================================================== query pipeline ====
VARIABLES
  MAX_WAIT,     \* the configured deadline, seconds
  pc,           \* pc[i]: where invocation i stands
  event,        \* event[i]: the event invocation i was given
  query,        \* query[i]: None, or the SQL text computed at line 27
  elapsed,      \* elapsed[i]: time.time() - start_time, saturating
  state,        \* state[i]: None, or the State the last status check read
  copySource,   \* copySource[i]: None, or the key parsed from OutputLocation
  bucket,       \* bucket[i]: None, or the netloc parsed from OutputLocation
  response,     \* response[i]: what the invocation ended with
  exec,         \* exec[i]: the engine's execution submitted by invocation i
  store,        \* the object store: key -> content
  rawRows,      \* rawRows[i]: None, or the Rows get_query_results returned
  \* history, read by the properties only
  submits,      \* submits[i]: calls of start_query_execution
  polls,        \* polls[i]: calls of get_query_execution (counted to ElapsedCap + 1)
  sawOther,     \* sawOther[i]: a status check raised or read a terminal state
  lastPoll,     \* lastPoll[i]: None or the elapsed time at the last deadline check
  copies,       \* the invocations whose copy_object completed, oldest first
  fetches       \* fetches[i]: calls of get_query_results

qvars == <<MAX_WAIT, pc, event, query, elapsed, state, copySource, bucket,
           response, exec, store, rawRows, submits, polls, sawOther, lastPoll,
           copies, fetches>>

\* ------------------------------------------ the ingestion lambda's state
VARIABLES
  ipc,          \* where the ingestion invocation stands
  now,          \* datetime.now(timezone.utc), seconds
  launchTime,   \* the instance's LaunchTime as the lookup returned it, seconds
  window,       \* None, or [start, end] as lines 41-50 computed them
  metrics,      \* None, or the three series get_metric_data returned
  rows,         \* the rows built at lines 142-150, the header row first
  written,      \* None, or the rows put_object wrote (as CSV text)
  summary       \* what the invocation ended with

ivars == <<ipc, now, launchTime, window, metrics, rows, written, summary>>
vars == <<qvars, ivars>>

\* --------------------------------------------------------- configuration
DATABASE == "cpu_metrics"
TABLE == "ec2_metrics_typed"
\* OUTPUT = "s3://damao-cpu-metrics/athena-query-results/"
OUTPUT == <<"s3:", "", "damao-cpu-metrics", "athena-query-results">>
DefaultQuery == "SELECT * FROM " \o DATABASE \o "." \o TABLE \o " LIMIT 20;"
FixedKey == <<"athena-query-results", "latest.csv">>

\* ------------------------------------------------------ the request event
\* A Python value as far as lines 18-27 look at it: its type, its text when it
\* is a str, its "query" entry when it is a dict.
PyStr(s) == [t |-> "str", s |-> s, q |-> None]
PyDict(q) == [t |-> "dict", s |-> "", q |-> q]
PyOther(t) == [t |-> t, s |-> "", q |-> None]
PyNone == PyOther("NoneType")

UserQuery == "SELECT 1"

\* json.loads on the sampled texts: the value, or a raise (ok = FALSE).
JsonTexts == {"{\"query\": \"SELECT 1\"}", "{}", "[1]", "null", "5", "not json"}
JsonLoads(s) ==
  CASE s = "{\"query\": \"SELECT 1\"}" -> [ok |-> TRUE, v |-> PyDict(Some(UserQuery))]
    [] s = "{}" -> [ok |-> TRUE, v |-> PyDict(None)]
    [] s = "[1]" -> [ok |-> TRUE, v |-> PyOther("list")]
    [] s = "null" -> [ok |-> TRUE, v |-> PyNone]
    [] s = "5" -> [ok |-> TRUE, v |-> PyOther("int")]
    [] OTHER -> [ok |-> FALSE, v |-> PyNone]

\* An event is a dict: its "body" entry and its "query" entry, each maybe absent.
MkEvent(b, q) == [body |-> b, query |-> q]
Events ==
  {MkEvent(Some(PyStr(s)), None) : s \in JsonTexts}
    \cup {MkEvent(Some(PyNone), None),
          MkEvent(Some(PyDict(Some(UserQuery))), None),
          MkEvent(Some(PyDict(None)), None),
          MkEvent(None, None),
          MkEvent(None, Some(UserQuery))}
PlainEvent == MkEvent(None, None)

\* Lines 18-25: the body the handler goes on with.
ParseBody(ev) ==
  IF ev.body # None
    THEN IF ev.body[1].t = "str"
           THEN IF JsonLoads(ev.body[1].s).ok
                  THEN JsonLoads(ev.body[1].s).v
                  ELSE PyDict(None)           \* except: body = {}
           ELSE ev.body[1]
    ELSE PyDict(ev.query)                     \* elif isinstance(event, dict)

\* Line 27: body.get("query", default); only a dict has .get.
HasGet(b) == b.t = "dict"
QueryOf(b) == IF b.q = None THEN DefaultQuery ELSE b.q[1]

\* ------------------------------------------------------------- responses
NoBody == [error |-> None, data |-> None, csv_url |-> None]
ErrorBody(msg) == [error |-> Some(msg), data |-> None, csv_url |-> None]
DataBody(data, url) == [error |-> None, data |-> Some(data), csv_url |-> Some(url)]
JsonHeaders == [ContentType |-> "application/json"]

\* Lines 90-95.
_response(status_code, body) ==
  [kind |-> "response", exc |-> "", statusCode |-> status_code,
   headers |-> JsonHeaders, body |-> body]
\* The invocation ended by an exception no handler caught.
Raised(exc) ==
  [kind |-> "raised", exc |-> exc, statusCode |-> 0, headers |-> JsonHeaders,
   body |-> NoBody]
Pending ==
  [kind |-> "none", exc |-> "", statusCode |-> 0, headers |-> JsonHeaders,
   body |-> NoBody]

\* ------------------------------------------------------------ the engine
Terminal == {"SUCCEEDED", "FAILED", "CANCELLED"}
NonTerminal == {"QUEUED", "RUNNING"}
NoExec == [state |-> "NONE", reason |-> None, output |-> <<>>]
Reasons == {None, Some(""), Some("SYNTAX_ERROR: line 1:8")}
QidOf(i) == "q" \o ToString(i)
\* The engine writes execution i's artifact under OUTPUT, named by the id.
OutputLocationOf(i) == OUTPUT \o <<QidOf(i) \o ".csv">>
ArtifactOf(i) == "rows of " \o QidOf(i)
InitialAlias == "initial"

\* urlparse(result_output): netloc, and path.lstrip("/") as a key.
RECURSIVE LStripEmpty(_)
LStripEmpty(segs) ==
  IF segs # <<>> /\ Head(segs) = "" THEN LStripEmpty(Tail(segs)) ELSE segs
NetlocOf(url) == url[3]
KeyOf(url) == LStripEmpty(SubSeq(url, 4, Len(url)))
Keys == {FixedKey} \cup {KeyOf(OutputLocationOf(i)) : i \in Inv}

\* -------------------------------------------------- shaping the preview
\* A cell is None (no VarCharValue) or Some(text); a row is a sequence of cells.
HeaderCells == {Some("a"), Some("b")}
DataCells == {None, Some("1")}
\* The raw result sets of at most n rows and w columns: no row at all (a
\* statement that returns none), or a header row and data rows of its width.
ResultSets(n, w) ==
  {<<>>} \cup
  UNION {{<<h>> \o b : h \in [1..k -> HeaderCells],
                       b \in SeqUpTo([1..k -> DataCells], n - 1)} : k \in 1..w}

\* Line 77: col.get("VarCharValue", "") over row 0.
HeadersOf(rows_data) ==
  [j \in 1..Len(rows_data[1]) |-> IF rows_data[1][j] = None THEN "" ELSE rows_data[1][j][1]]
\* Line 79: {headers[i]: col.get("VarCharValue", None) ...}: a dict keeps, for a
\* key written twice, the value written last.
LastAt(headers, row, n) ==
  CHOOSE j \in 1..Len(row) :
    /\ headers[j] = n
    /\ \A k \in 1..Len(row) : headers[k] = n => k <= j
RowMap(headers, row) ==
  [n \in {headers[j] : j \in 1..Len(row)} |-> row[LastAt(headers, row, n)]]
\* rows_data[0] of an empty list, headers[i] past the end of the header row.
ShapeRaises(rows_data) ==
  \/ rows_data = <<>>
  \/ \E r \in 2..Len(rows_data) : Len(rows_data[r]) > Len(rows_data[1])
\* (rows_data[0:] in place of rows_data[1:]: the header row kept as data.)
ShapeWithHeaderRow(rows_data) ==
  [r \in 1..Len(rows_data) |-> RowMap(HeadersOf(rows_data), rows_data[r])]
\* Lines 78-81: rows_data[1:] against the headers.
Shape(rows_data) ==
  [r \in 1..(Len(rows_data) - 1) |-> RowMap(HeadersOf(rows_data), rows_data[r + 1])]
CsvUrl(b) == <<"s3:", "", b>> \o FixedKey

\* ------------------------------------------------------ handler steps
Put(f, i, v) == [f EXCEPT ![i] = v]
Ends(i, r) == pc' = Put(pc, i, "done") /\ response' = Put(response, i, r)

\* (The deadline taken for milliseconds.)
TimedOutNever(e, w) == e > w * 1000
\* Line 48: time.time() - start_time > MAX_WAIT.
TimedOut(e, w) == e > w

\* Lines 16-27: the event is parsed and the SQL text chosen.
InvokeWith(i, ev) ==
  /\ event' = Put(event, i, ev)
  /\ IF HasGet(ParseBody(ev))
       THEN /\ query' = Put(query, i, Some(QueryOf(ParseBody(ev))))
            /\ pc' = Put(pc, i, "submit")
            /\ UNCHANGED response
       ELSE /\ Ends(i, Raised("AttributeError"))    \* body.get on a non-dict
            /\ UNCHANGED query
  /\ UNCHANGED <<MAX_WAIT, elapsed, state, copySource, bucket, exec, store,
                 rawRows, submits, polls, sawOther, lastPoll, copies, fetches>>
Invoke(i, c) ==
  /\ pc[i] = "idle"
  /\ \E ev \in c.events : InvokeWith(i, ev)
  /\ UNCHANGED ivars

\* Lines 29-41: start_query_execution; on success the clock starts.
StartQueryWith(i, err) ==
  /\ submits' = Put(submits, i, submits[i] + 1)
  /\ IF err = None
       THEN /\ exec' = Put(exec, i, [state |-> "QUEUED", reason |-> None,
                                     output |-> OutputLocationOf(i)])
            /\ elapsed' = Put(elapsed, i, 0)
            /\ pc' = Put(pc, i, "poll")
            /\ UNCHANGED response
       ELSE /\ Ends(i, _response(500, ErrorBody("Failed to start query: " \o err[1])))
            /\ UNCHANGED <<exec, elapsed>>
  /\ UNCHANGED <<MAX_WAIT, event, query, state, copySource, bucket, store,
                 rawRows, polls, sawOther, lastPoll, copies, fetches>>
StartQuery(i, c) ==
  /\ pc[i] = "submit"
  /\ \E err \in c.startErrors : StartQueryWith(i, err)
  /\ UNCHANGED ivars

\* Lines 53-55: the reason of a FAILED or CANCELLED execution.
ReasonOf(status) == IF status.reason = None THEN "Unknown error" ELSE status.reason[1]

\* (Only SUCCEEDED ending the loop.)
BreaksLoopOnSuccessOnly(st) == st = "SUCCEEDED"
\* Line 46: the states that end the polling loop.
BreaksLoop(st) == st \in Terminal

\* Lines 43-47 and, on a terminal state, 52-61: one status check.  `raises`:
\* the call raised; `d`: the seconds the call took.
PollStatusWith(i, raises, d) ==
  /\ polls' = Put(polls, i, Min(polls[i] + 1, ElapsedCap + 1))
  /\ elapsed' = Put(elapsed, i, Min(ElapsedCap, elapsed[i] + d))
  /\ IF raises
       THEN /\ Ends(i, Raised("ClientError"))
            /\ sawOther' = Put(sawOther, i, TRUE)
            /\ UNCHANGED <<state, copySource, bucket>>
       ELSE /\ state' = Put(state, i, Some(exec[i].state))
            /\ sawOther' = Put(sawOther, i, sawOther[i] \/ exec[i].state \in Terminal)
            /\ IF ~BreaksLoop(exec[i].state)
                 THEN /\ pc' = Put(pc, i, "deadline")
                      /\ UNCHANGED <<response, copySource, bucket>>
                 ELSE IF exec[i].state # "SUCCEEDED"
                   THEN /\ Ends(i, _response(500,
                                  ErrorBody("Query failed: " \o ReasonOf(exec[i]))))
                        /\ UNCHANGED <<copySource, bucket>>
                   ELSE /\ bucket' = Put(bucket, i, Some(NetlocOf(exec[i].output)))
                        /\ copySource' = Put(copySource, i, Some(KeyOf(exec[i].output)))
                        /\ pc' = Put(pc, i, "copy")
                        /\ UNCHANGED response
  /\ UNCHANGED <<MAX_WAIT, event, query, exec, store, rawRows, submits,
                 lastPoll, copies, fetches>>
PollStatus(i, c) ==
  /\ pc[i] = "poll"
  /\ \E r \in c.raises, d \in c.latencies : PollStatusWith(i, r, d)
  /\ UNCHANGED ivars

\* Lines 48-49: the deadline, looked at only after a non-terminal state.
CheckDeadline(i) ==
  /\ pc[i] = "deadline"
  /\ lastPoll' = Put(lastPoll, i, Some(elapsed[i]))
  /\ IF TimedOut(elapsed[i], MAX_WAIT)
       THEN Ends(i, _response(504, ErrorBody("Athena query timed out")))
       ELSE pc' = Put(pc, i, "sleep") /\ UNCHANGED response
  /\ UNCHANGED <<MAX_WAIT, event, query, elapsed, state, copySource, bucket,
                 exec, store, rawRows, submits, polls, sawOther, copies, fetches>>
  /\ UNCHANGED ivars

\* Line 50: time.sleep(1) lasts a second, or `d` more.
SleepAdvance(e, d) == Min(ElapsedCap, e + 1 + d)
Sleep(i, c) ==
  /\ pc[i] = "sleep"
  /\ \E d \in c.latencies : elapsed' = Put(elapsed, i, SleepAdvance(elapsed[i], d))
  /\ pc' = Put(pc, i, "poll")
  /\ UNCHANGED <<MAX_WAIT, event, query, state, copySource, bucket, response,
                 exec, store, rawRows, submits, polls, sawOther, lastPoll,
                 copies, fetches>>
  /\ UNCHANGED ivars

\* Lines 63-72: copy_object to the fixed key; `err`: None, or the call raised.
\* copy_object(Bucket, CopySource = {Bucket, Key = src}, Key = fixed_key): the
\* store replaces the object at the target by the source's whole content.
\* (Source and target exchanged.)
CopiedStoreSwapped(st, src) == [st EXCEPT ![src] = st[FixedKey]]
CopiedStore(st, src) == [st EXCEPT ![FixedKey] = st[src]]
CopyObjectWith(i, err) ==
  /\ IF err = None /\ store[copySource[i][1]] # None
       THEN /\ store' = CopiedStore(store, copySource[i][1])
            /\ copies' = Append(copies, i)
            /\ pc' = Put(pc, i, "fetch")
            /\ UNCHANGED response
       ELSE /\ Ends(i, _response(500, ErrorBody("Failed to copy latest.csv: " \o
                         (IF err = None THEN "NoSuchKey" ELSE err[1]))))
            /\ UNCHANGED <<store, copies>>
  /\ UNCHANGED <<MAX_WAIT, event, query, elapsed, state, copySource, bucket,
                 exec, rawRows, submits, polls, sawOther, lastPoll, fetches>>
CopyObject(i, c) ==
  /\ pc[i] = "copy"
  /\ \E err \in c.copyErrors : CopyObjectWith(i, err)
  /\ UNCHANGED ivars

\* Lines 74-87: get_query_results, the preview, the 200 response.
FetchResultsWith(i, raises, rs) ==
  /\ fetches' = Put(fetches, i, fetches[i] + 1)
  /\ IF raises
       THEN Ends(i, Raised("ClientError")) /\ UNCHANGED rawRows
       ELSE /\ rawRows' = Put(rawRows, i, Some(rs))
            /\ IF ShapeRaises(rs)
                 THEN Ends(i, Raised("IndexError"))
                 ELSE Ends(i, _response(200, DataBody(Shape(rs), CsvUrl(bucket[i][1]))))
  /\ UNCHANGED <<MAX_WAIT, event, query, elapsed, state, copySource, bucket,
                 exec, store, submits, polls, sawOther, lastPoll, copies>>
FetchResults(i, c) ==
  /\ pc[i] = "fetch"
  /\ \E r \in c.raises, rs \in c.results : FetchResultsWith(i, r, rs)
  /\ UNCHANGED ivars

\* --------------------------------------------------- the engine's steps
\* The engine alone moves an execution: QUEUED -> RUNNING -> terminal.
EngineRun(i) ==
  /\ exec[i].state = "QUEUED"
  /\ exec' = Put(exec, i, [exec[i] EXCEPT !.state = "RUNNING"])
  /\ UNCHANGED <<MAX_WAIT, pc, event, query, elapsed, state, copySource, bucket,
                 response, store, rawRows, submits, polls, sawOther, lastPoll,
                 copies, fetches>>
  /\ UNCHANGED ivars

\* A terminal state; SUCCEEDED leaves the artifact at the output location.
EngineFinishWith(i, st, rsn) ==
  /\ exec' = Put(exec, i, [exec[i] EXCEPT !.state = st,
                             !.reason = IF st = "SUCCEEDED" THEN None ELSE rsn])
  /\ store' = IF st = "SUCCEEDED"
                THEN [store EXCEPT ![KeyOf(exec[i].output)] = Some(ArtifactOf(i))]
                ELSE store
  /\ UNCHANGED <<MAX_WAIT, pc, event, query, elapsed, state, copySource, bucket,
                 response, rawRows, submits, polls, sawOther, lastPoll,
                 copies, fetches>>
EngineFinish(i, c) ==
  /\ exec[i].state \in NonTerminal
  /\ \E st \in Terminal, rsn \in c.reasons : EngineFinishWith(i, st, rsn)
  /\ UNCHANGED ivars

\* ------------------------------------------------------ specifications
QInit(waits) ==
  /\ MAX_WAIT \in waits
  /\ pc = [i \in Inv |-> "idle"]
  /\ event = [i \in Inv |-> PlainEvent]
  /\ query = [i \in Inv |-> None]
  /\ elapsed = [i \in Inv |-> 0]
  /\ state = [i \in Inv |-> None]
  /\ copySource = [i \in Inv |-> None]
  /\ bucket = [i \in Inv |-> None]
  /\ response = [i \in Inv |-> Pending]
  /\ exec = [i \in Inv |-> NoExec]
  /\ store = [k \in Keys |-> IF k = FixedKey THEN Some(InitialAlias) ELSE None]
  /\ rawRows = [i \in Inv |-> None]
  /\ submits = [i \in Inv |-> 0]
  /\ polls = [i \in Inv |-> 0]
  /\ sawOther = [i \in Inv |-> FALSE]
  /\ lastPoll = [i \in Inv |-> None]
  /\ copies = <<>>
  /\ fetches = [i \in Inv |-> 0]

\* c: the invocations that run and the inputs they may meet.
QNext(c) ==
  \E i \in c.invs :
    \/ Invoke(i, c)
    \/ StartQuery(i, c)
    \/ PollStatus(i, c)
    \/ CheckDeadline(i)
    \/ Sleep(i, c)
    \/ CopyObject(i, c)
    \/ FetchResults(i, c)
    \/ EngineRun(i)
    \/ EngineFinish(i, c)

\* What the handler itself does once invoked; the runtime keeps running it.
HandlerStep(i, c) ==
  \/ StartQuery(i, c)
  \/ PollStatus(i, c)
  \/ CheckDeadline(i)
  \/ Sleep(i, c)
  \/ CopyObject(i, c)
  \/ FetchResults(i, c)

SampleResults == ResultSets(2, 2)

\* One invocation, every input.
Full ==
  [invs |-> {1}, events |-> Events,
   startErrors |-> {None, Some("InvalidRequestException")},
   raises |-> BOOLEAN, latencies |-> 0..MaxLatency,
   copyErrors |-> {None, Some("AccessDenied")},
   results |-> SampleResults, reasons |-> Reasons]

\* ========================================================= ingestion ====
\* ------------------------------------------------------ the time window
MaxMinute == 2          \* the sampled instants span minutes 0..MaxMinute
SecondsPerMinute == 60
SecondsPerDay == 86400
SecondSamples == {0, 1, 30, 59}
\* "now" a day and some minutes in; launch times around now - 24h, and now.
NowSamples ==
  {SecondsPerDay + m * SecondsPerMinute + s : m \in 0..MaxMinute, s \in SecondSamples}
LaunchSamples ==
  {m * SecondsPerMinute + s : m \in 0..(MaxMinute + 1), s \in SecondSamples}
    \cup NowSamples

\* .replace(second=0, microsecond=0)
TruncMinute(t) == t - (t % SecondsPerMinute)
\* Line 46: the launch time as the window uses it.
LaunchFloor(t) == TruncMinute(t)
\* Lines 41-50.
WindowOf(n, t) ==
  [end |-> TruncMinute(n),
   start |-> Max(TruncMinute(n) - SecondsPerDay, LaunchFloor(t))]

\* --------------------------------------------------- timestamps as text
\* A text is the sequence of its characters; Python orders str by code point.
Ord(c) ==
  CASE c = "+" -> 43 [] c = "-" -> 45 [] c = "." -> 46
    [] c = "0" -> 48 [] c = "1" -> 49 [] c = "2" -> 50 [] c = "3" -> 51
    [] c = "4" -> 52 [] c = "5" -> 53 [] c = "6" -> 54 [] c = "7" -> 55
    [] c = "8" -> 56 [] c = "9" -> 57 [] c = ":" -> 58 [] c = "T" -> 84
DigitChar(d) ==
  CASE d = 0 -> "0" [] d = 1 -> "1" [] d = 2 -> "2" [] d = 3 -> "3" [] d = 4 -> "4"
    [] d = 5 -> "5" [] d = 6 -> "6" [] d = 7 -> "7" [] d = 8 -> "8" [] d = 9 -> "9"

\* n in decimal, at least one digit.
RECURSIVE Digits(_)
Digits(n) == IF n < 10 THEN <<DigitChar(n)>> ELSE Digits(n \div 10) \o <<DigitChar(n % 10)>>
\* n in decimal, zero-padded to w digits (%02d, %06d).
RECURSIVE ZeroPad(_, _)
ZeroPad(cs, w) == IF Len(cs) >= w THEN cs ELSE ZeroPad(<<"0">> \o cs, w)
Padded(n, w) == ZeroPad(Digits(n), w)

\* A timestamp: seconds into the day and microseconds.  datetime.isoformat():
\* HH:MM:SS, then .ffffff only when the microseconds are not 0, then the offset.
\* (The date, the same in every sample, is left out.)
IsoFormat(t) ==
  Padded(t.s \div 3600, 2) \o <<":">> \o Padded((t.s \div 60) % 60, 2) \o <<":">>
    \o Padded(t.s % 60, 2)
    \o (IF t.us = 0 THEN <<>> ELSE <<".">> \o Padded(t.us, 6))
    \o <<"+", "0", "0", ":", "0", "0">>

\* str < str.
RECURSIVE LexLess(_, _)
LexLess(a, b) ==
  IF b = <<>> THEN FALSE
  ELSE IF a = <<>> THEN TRUE
  ELSE IF Head(a) = Head(b) THEN LexLess(Tail(a), Tail(b))
  ELSE Ord(Head(a)) < Ord(Head(b))

\* sorted(S) for a set of texts.
RECURSIVE Sorted(_)
Sorted(S) ==
  IF S = {} THEN <<>>
  ELSE LET m == CHOOSE x \in S : \A y \in S \ {x} : LexLess(x, y)
       IN <<m>> \o Sorted(S \ {m})

\* ------------------------------------------------------ numbers as text
\* A metric value v stands for v / 10000.
Scale == 10000
RECURSIVE Join(_)
Join(cs) == IF cs = <<>> THEN "" ELSE Head(cs) \o Join(Tail(cs))
\* Lines 179-191.  (No sample lies half-way between two thousandths.)
_fmt(val) ==
  IF val = None THEN ""
  ELSE IF val[1] % Scale = 0 THEN Join(Digits(val[1] \div Scale))
  ELSE Join(Digits(val[1] \div Scale)) \o "."
         \o Join(Padded(((val[1] % Scale) + 5) \div 10, 3))

\* ------------------------------------------------------ the three series
MaxStamps == 3
StampSamples ==
  <<[s |-> 9, us |-> 0], [s |-> 10, us |-> 0], [s |-> 9, us |-> 500000],
    [s |-> 3600, us |-> 0], [s |-> 600, us |-> 0]>>
Stamps == {StampSamples[k] : k \in 1..Min(MaxStamps, Len(StampSamples))}
Before(a, b) == a.s < b.s \/ (a.s = b.s /\ a.us < b.us)
CpuValues == {0, 125000}          \* 0.0, 12.5
NetInValues == {0}                \* 0.0
NetOutValues == {12345678}        \* 1234.5678

\* ScanBy="TimestampAscending": the stamps of S, oldest first.
RECURSIVE Ascending(_)
Ascending(S) ==
  IF S = {} THEN <<>>
  ELSE LET m == CHOOSE x \in S : \A y \in S \ {x} : Before(x, y)
       IN <<m>> \o Ascending(S \ {m})
\* One MetricDataResult: Timestamps and Values, index by index.
SeriesOver(Vals) ==
  UNION {{[Timestamps |-> Ascending(S),
           Values |-> [k \in 1..Cardinality(S) |-> f[Ascending(S)[k]]]]
          : f \in [S -> Vals]} : S \in SUBSET Stamps}

\* Lines 122-127: zip, keyed by isoformat; a key written twice keeps the last.
to_map(result) ==
  LET n == Min(Len(result.Timestamps), Len(result.Values))
      keys == {IsoFormat(result.Timestamps[k]) : k \in 1..n}
  IN [ts \in keys |->
        result.Values[CHOOSE k \in 1..n :
                        /\ IsoFormat(result.Timestamps[k]) = ts
                        /\ \A j \in 1..n :
                             IsoFormat(result.Timestamps[j]) = ts => j <= k]]
\* dict.get(ts): None when the key is absent.
Get(m, ts) == IF ts \in DOMAIN m THEN Some(m[ts]) ELSE None

\* (The union without the third series.)
AllTsNoNetOut(cpu_map, in_map, out_map) ==
  Sorted(DOMAIN cpu_map \cup DOMAIN in_map)
\* Line 134.
AllTs(cpu_map, in_map, out_map) ==
  Sorted(DOMAIN cpu_map \cup DOMAIN in_map \cup DOMAIN out_map)
\* Line 143.
Header == <<"timestamp", "cpu_percent", "network_in_bytes", "network_out_bytes">>
\* Lines 129-150: the header row, then a row per timestamp.
MergeRows(cpu, netin, netout) ==
  LET cpu_map == to_map(cpu)
      in_map == to_map(netin)
      out_map == to_map(netout)
      all_ts == AllTs(cpu_map, in_map, out_map)
  IN <<Header>> \o
     [k \in 1..Len(all_ts) |->
        <<all_ts[k], _fmt(Get(cpu_map, all_ts[k])), _fmt(Get(in_map, all_ts[k])),
          _fmt(Get(out_map, all_ts[k]))>>]

\* ------------------------------------------------------ ingestion steps
NoSummary == [kind |-> "none", exc |-> "", window_start |-> 0, window_end |-> 0,
              timestamps |-> 0]

\* Lines 41-50: now, describe_instances, the window.
DescribeInstancesWith(n, t, raises) ==
  /\ now' = n
  /\ IF raises
       THEN /\ ipc' = "done"
            /\ summary' = [NoSummary EXCEPT !.kind = "raised", !.exc = "ClientError"]
            /\ UNCHANGED <<launchTime, window>>
       ELSE /\ launchTime' = t
            /\ window' = Some(WindowOf(n, t))
            /\ ipc' = "metrics"
            /\ UNCHANGED summary
  /\ UNCHANGED <<metrics, rows, written>>
DescribeInstances(c) ==
  /\ ipc = "start"
  /\ \E n \in c.nows, t \in c.launches, r \in BOOLEAN :
       t <= n /\ DescribeInstancesWith(n, t, r)
  /\ UNCHANGED qvars

\* Lines 106-150: get_metric_data over the window, then the merge.
GetMetricDataWith(cpu, netin, netout, raises) ==
  /\ IF raises
       THEN /\ ipc' = "done"
            /\ summary' = [NoSummary EXCEPT !.kind = "raised", !.exc = "ClientError"]
            /\ UNCHANGED <<metrics, rows>>
       ELSE /\ metrics' = Some([cpu |-> cpu, netin |-> netin, netout |-> netout])
            /\ rows' = MergeRows(cpu, netin, netout)
            /\ ipc' = "put"
            /\ UNCHANGED summary
  /\ UNCHANGED <<now, launchTime, window, written>>
GetMetricData(c) ==
  /\ ipc = "metrics"
  /\ \E cpu \in c.cpu, netin \in c.netin, netout \in c.netout, r \in BOOLEAN :
       GetMetricDataWith(cpu, netin, netout, r)
  /\ UNCHANGED qvars

\* Lines 156-173: put_object, the summary.
PutObject ==
  /\ ipc = "put"
  /\ ipc' = "done"
  /\ \E raises \in BOOLEAN : IF raises
       THEN /\ summary' = [NoSummary EXCEPT !.kind = "raised", !.exc = "ClientError"]
            /\ UNCHANGED written
       ELSE /\ written' = Some(rows)
            /\ summary' = [kind |-> "ok", exc |-> "",
                           window_start |-> window[1].start,
                           window_end |-> window[1].end,
                           timestamps |-> Len(rows) - 1]
  /\ UNCHANGED <<now, launchTime, window, metrics, rows>>
  /\ UNCHANGED qvars

IInit ==
  /\ ipc = "start"
  /\ now = 0
  /\ launchTime = 0
  /\ window = None
  /\ metrics = None
  /\ rows = <<>>
  /\ written = None
  /\ summary = NoSummary

INext(c) == DescribeInstances(c) \/ GetMetricData(c) \/ PutObject

\* The ingestion lambda run once, over every sampled pair of instants; the
\* series are the smallest that make every column empty or filled.
Instants ==
  [nows |-> NowSamples, launches |-> LaunchSamples,
   cpu |-> {s \in SeriesOver(CpuValues) : Len(s.Timestamps) <= 1},
   netin |-> {s \in SeriesOver(NetInValues) : Len(s.Timestamps) = 0},
   netout |-> {s \in SeriesOver(NetOutValues) : Len(s.Timestamps) = 0}]
WindowInit == QInit({0}) /\ IInit
WindowSpec == WindowInit /\ [][INext(Instants)]_vars

\* The ingestion lambda run once at one instant, over every sampled series.
Series ==
  [nows |-> {SecondsPerDay + SecondsPerMinute}, launches |-> {SecondsPerMinute - 1},
   cpu |-> SeriesOver(CpuValues), netin |-> SeriesOver(NetInValues),
   netout |-> SeriesOver(NetOutValues)]
MergeInit == QInit({0}) /\ IInit
MergeSpec == MergeInit /\ [][INext(Series)]_vars

\* The query lambda, one invocation, every input.
Init == QInit(0..MaxDeadline) /\ IInit
Spec == Init /\ [][QNext(Full)]_vars

\* The same, the runtime running the handler to its end.  The engine is not
\* obliged to move.
FairSpec == Init /\ [][QNext(Full)]_vars /\ WF_vars(HandlerStep(1, Full))

\* Concurrent invocations; the inputs that do not bear on the store are fixed.
Concurrent ==
  [invs |-> Inv, events |-> {PlainEvent},
   startErrors |-> {None, Some("InvalidRequestException")},
   raises |-> BOOLEAN, latencies |-> {0},
   copyErrors |-> {None, Some("AccessDenied")},
   results |-> {<<<<Some("a")>>, <<Some("1")>>>>}, reasons |-> {None}]
ConcInit == QInit({0}) /\ IInit
ConcSpec == ConcInit /\ [][QNext(Concurrent)]_vars

\* One invocation that meets no failure, over every sampled raw result set.
Shaping ==
  [invs |-> {1}, events |-> {PlainEvent}, startErrors |-> {None},
   raises |-> {FALSE}, latencies |-> {0}, copyErrors |-> {None},
   results |-> ResultSets(MaxRows, MaxCols), reasons |-> {None}]
ShapeInit == QInit({0}) /\ IInit
ShapeSpec == ShapeInit /\ [][QNext(Shaping)]_vars

\* ============================================================ properties
Range(q) == {q[k] : k \in 1..Len(q)}
Done(i) == pc[i] = "done"
Returned(i, code) == response[i].kind = "response" /\ response[i].statusCode = code
ErrorOf(i) == response[i].body.error
Submitted(i) == exec[i].state # "NONE"

\* C1: every invocation that ends, ends by returning the envelope {statusCode,
\* headers, body} with statusCode 200, 500 or 504 and, on failure, an `error`
\* in the body; none ends by an uncaught exception.
C1_AlwaysEnvelope ==
  \A i \in Inv :
    Done(i) =>
      /\ response[i].kind = "response"
      /\ response[i].statusCode \in {200, 500, 504}
      /\ response[i].headers = JsonHeaders
      /\ (response[i].statusCode # 200 => ErrorOf(i) # None)

\* C2: a submitted execution that every status check finds QUEUED or RUNNING
\* ends in 504 "Athena query timed out", reached once the elapsed time exceeds
\* MAX_WAIT, never 200 or a 500, with no copy to the alias key; and it does end.
C2_TimesOut ==
  /\ [](\A i \in Inv :
          (Done(i) /\ Submitted(i) /\ ~sawOther[i]) =>
            /\ Returned(i, 504)
            /\ ErrorOf(i) = Some("Athena query timed out")
            /\ lastPoll[i] # None /\ lastPoll[i][1] > MAX_WAIT
            /\ i \notin Range(copies)
            /\ store[FixedKey] = Some(InitialAlias))
  /\ \A i \in Inv : (pc[i] = "poll") ~> (sawOther[i] \/ Returned(i, 504))
C2_Witness ==
  \E i \in Inv : Done(i) /\ Submitted(i) /\ ~sawOther[i] /\ polls[i] >= 2
                 /\ Returned(i, 504) /\ exec[i].state = "RUNNING"

\* C3: the status code follows the outcome: 200 exactly when SUCCEEDED was
\* observed and the copy succeeded, with data and csv_url = the alias key;
\* 500 with an error on a submission error, on FAILED/CANCELLED and on a copy
\* failure (a message of its own); 504 on a deadline passed while non-terminal.
C3_StatusByOutcome ==
  \A i \in Inv :
    Done(i) =>
      /\ Returned(i, 200) <=> (state[i] = Some("SUCCEEDED") /\ i \in Range(copies))
      /\ Returned(i, 200) =>
           /\ response[i].body.data # None
           /\ response[i].body.csv_url =
                Some(<<"s3:", "", "damao-cpu-metrics", "athena-query-results", "latest.csv">>)
      /\ (submits[i] = 1 /\ ~Submitted(i)) => (Returned(i, 500) /\ ErrorOf(i) # None)
      /\ (state[i] # None /\ state[i][1] \in {"FAILED", "CANCELLED"}) =>
           (Returned(i, 500) /\ ErrorOf(i) # None)
      /\ (state[i] = Some("SUCCEEDED") /\ i \notin Range(copies)) =>
           /\ Returned(i, 500) /\ ErrorOf(i) # None
           /\ ErrorOf(i) # Some("Query failed: " \o ReasonOf(exec[i]))
      /\ (lastPoll[i] # None /\ lastPoll[i][1] > MAX_WAIT) => Returned(i, 504)

\* C4: the SQL text submitted is the request's `query` when one is supplied and
\* the default statement otherwise (body not JSON, not an object, null, or
\* without `query`), and in each case the invocation goes on to submission.
SuppliedQuery(ev) ==
  IF ev.body = None THEN ev.query
  ELSE IF ev.body[1].t = "dict" THEN ev.body[1].q
  ELSE IF ev.body[1].t = "str" /\ JsonLoads(ev.body[1].s).ok
            /\ JsonLoads(ev.body[1].s).v.t = "dict"
         THEN JsonLoads(ev.body[1].s).v.q
  ELSE None
C4_QueryOrDefault ==
  \A i \in Inv :
    pc[i] # "idle" =>
      /\ query[i] = Some(IF SuppliedQuery(event[i]) = None THEN DefaultQuery
                         ELSE SuppliedQuery(event[i])[1])
      /\ (Done(i) => submits[i] = 1)

\* C5: on FAILED or CANCELLED the invocation returns 500 whose message carries
\* the engine's reason, or "Unknown error" when the reason is absent or empty;
\* nothing is copied and no result is fetched.
C5_ReasonOrPlaceholder ==
  \A i \in Inv :
    (Done(i) /\ state[i] # None /\ state[i][1] \in {"FAILED", "CANCELLED"}) =>
      /\ Returned(i, 500)
      /\ ErrorOf(i) = Some("Query failed: " \o
                           (IF exec[i].reason = None \/ exec[i].reason = Some("")
                              THEN "Unknown error" ELSE exec[i].reason[1]))
      /\ i \notin Range(copies)
      /\ fetches[i] = 0

\* C10: after a successful submission a status check always comes first, even
\* with a deadline of 0; 504 is returned only right after a check that read a
\* non-terminal state, with the deadline passed; a check that reads a terminal
\* state decides the outcome whatever the clock says; one submission at most.
C10_TerminalBeforeDeadline ==
  \A i \in Inv :
    /\ submits[i] <= 1
    /\ (Submitted(i) /\ pc[i] # "poll") => polls[i] >= 1
    /\ pc[i] = "deadline" => (state[i] # None /\ state[i][1] \in NonTerminal)
    /\ Returned(i, 504) =>
         /\ polls[i] >= 1
         /\ state[i] # None /\ state[i][1] \in NonTerminal
         /\ lastPoll[i] # None /\ lastPoll[i][1] > MAX_WAIT
         /\ ~sawOther[i]
    /\ (state[i] # None /\ state[i][1] \in Terminal) =>
         /\ pc[i] \in {"copy", "fetch", "done"}
         /\ ~Returned(i, 504)
         /\ (state[i][1] # "SUCCEEDED" => Returned(i, 500))
C10_Witness ==
  \E i \in Inv : /\ Done(i) /\ state[i] = Some("FAILED") /\ Returned(i, 500)
                 /\ elapsed[i] > MAX_WAIT /\ MAX_WAIT = 0 /\ polls[i] >= 2

\* C7: the object at the alias key is the initial content until a copy
\* completes and from then on the whole artifact of the execution whose copy
\* completed last; only invocations that read SUCCEEDED copy, each once; no
\* other object is written by an invocation.
C7_AliasLastWriterWins ==
  /\ store[FixedKey] = IF copies = <<>> THEN Some(InitialAlias)
                       ELSE Some(ArtifactOf(copies[Len(copies)]))
  /\ \A k \in 1..Len(copies) :
       /\ state[copies[k]] = Some("SUCCEEDED")
       /\ exec[copies[k]].state = "SUCCEEDED"
       /\ \A j \in 1..Len(copies) : copies[j] = copies[k] => j = k
  /\ \A i \in Inv :
       /\ (Done(i) /\ ~Returned(i, 200) /\ state[i] # Some("SUCCEEDED")) =>
            i \notin Range(copies)
       /\ store[KeyOf(OutputLocationOf(i))] =
            IF exec[i].state = "SUCCEEDED" THEN Some(ArtifactOf(i)) ELSE None
\* Two invocations have copied, and a third kind of ending sits beside them.
C7_Witness ==
  /\ Len(copies) = 2 /\ copies[1] = 2 /\ copies[2] = 1
  /\ store[FixedKey] = Some(ArtifactOf(1))
  /\ Returned(1, 200) /\ Done(2)

\* C9 as first stated: in a 200 response `data` has one mapping per raw row
\* after row 0, in order, and each mapping gives every header name the row's
\* cell at that name's position (null for a cell with no value).
NameOf(cell) == IF cell = None THEN "" ELSE cell[1]
C6_StartNotBeforeLaunch ==
  /\ window # None =>
       /\ window[1].start =
            Max((now - (now % SecondsPerMinute)) - SecondsPerDay, launchTime)
       /\ window[1].start >= launchTime
  /\ summary.kind = "ok" => summary.window_start = window[1].start

\* C8: the rows written hold one row per timestamp of the union of the three
\* series, ascending (as text and in time) with none twice, and a series'
\* column is "" exactly when the series has no value at the row's timestamp.
StampsOf(result) == Range(result.Timestamps)
C8_MergedRows ==
  (written # None /\ metrics # None) =>
    LET out == Tail(written[1])
        m == metrics[1]
        U == StampsOf(m.cpu) \cup StampsOf(m.netin) \cup StampsOf(m.netout)
        At(k) == CHOOSE t \in U : IsoFormat(t) = out[k][1]
    IN /\ Len(out) = Cardinality(U)
       /\ {out[k][1] : k \in 1..Len(out)} = {IsoFormat(t) : t \in U}
       /\ \A k \in 1..(Len(out) - 1) :
            /\ LexLess(out[k][1], out[k + 1][1])
            /\ Before(At(k), At(k + 1))
       /\ \A k \in 1..Len(out) :
            /\ Len(out[k]) = 4
            /\ (out[k][2] = "") <=> (At(k) \notin StampsOf(m.cpu))
            /\ (out[k][3] = "") <=> (At(k) \notin StampsOf(m.netin))
            /\ (out[k][4] = "") <=> (At(k) \notin StampsOf(m.netout))
\* Three rows, each from one series alone, a zero among the values.
C8_Witness ==
  /\ written # None /\ metrics # None
  /\ Len(written[1]) = 4 /\ written[1][1] = Header
  /\ \A k \in 2..4 :
       Cardinality({c \in 2..4 : written[1][k][c] # ""}) = 1
  /\ \E k \in 2..4 : written[1][k][2] = "0"
  /\ \E k \in 2..4 : written[1][k][3] = "0"

====
